---------------------------- MODULE Spec2Model ----------------------------
(***************************************************************************)
(* A model of promptheus' interactive terminal input and selection code:   *)
(* the raw-mode line editors and menus of src/utils/interactive.rs and     *)
(* src/utils.rs, and the external finder bridge of src/utils/search.rs.    *)
(*                                                                         *)
(* Strings are sequences of one-character strings; LF and NUL stand for    *)
(* the line feed and the NUL byte.                                         *)
(***************************************************************************)
EXTENDS Integers, Sequences, FiniteSets, TLC

VARIABLES
    raw_mode_active,        \* terminal: raw mode is on
    bracketed_paste_active, \* terminal: bracketed paste reporting is on
    op,                     \* the interactive operation in progress
    pc,                     \* its position: idle, loop, cleanup, returned, done
    lines,                  \* prompt_multiline: committed lines
    current_line,           \* prompt_multiline: the line being edited
    input,                  \* prompt_input_with_autocomplete: typed text
    current_suggestion,     \* prompt_input_with_autocomplete: shown completion
    n_items,                \* menus: items.len()
    selected,               \* menus: the highlighted row
    selected_items,         \* multi_select_from_list: the rows marked selected
    show_custom_input,      \* select_from_list_with_custom: capturing custom text
    custom_input,           \* select_from_list_with_custom: the captured text
    result,                 \* the local `result` computed before the cleanup
    returned,               \* the value the operation returned to its caller
    last_event,             \* the event the last loop iteration read
    typed,                  \* history: text typed so far by Char and line-break keys only
    pure,                   \* history: only Char and line-break keys were pressed so far
    popped,                 \* history: the last Backspace popped a committed line
    fault,                  \* history: the call that failed in the last step, if any
    restore_failed,         \* history: a terminal restoration call failed
    cleaned,                \* history: the operation went through its cleanup code
    restore_log,            \* history: the restoration steps of prompt_multiline, in order
    cursor_col,             \* screen: the column of the cursor, counted from 0
    drawn_from,             \* screen: the column where the text of the current line starts
    cmd_outcome,            \* what the `new` command made of the editor's outcome
    items,                  \* finder bridge: the candidates
    select_cmd,             \* finder bridge: the configured selector command
    installed,              \* environment: the executables that can be invoked
    search_pc,              \* finder bridge: idle, spawn, write, wait, waiting, returned
    next_item,              \* finder bridge: index of the candidate being written
    pending,                \* finder bridge: bytes of that candidate still to write
    stdin_pipe,             \* bytes written to the child's stdin and not yet read by it
    stdin_closed,           \* the parent's end of the child's stdin has been closed
    child,                  \* the finder process: none, running, exited
    child_input,            \* bytes the finder has read from its stdin
    status,                 \* the finder's exit status
    stdout,                 \* bytes the finder wrote to its stdout
    reaped,                 \* the parent has waited for the finder
    stderr_pipe,            \* bytes in the pipe of the finder's stderr
    stderr_pending,         \* bytes of the write(2) the finder is in, on its stderr
    drawn,                  \* bytes the finder has written or is writing to its stderr
    search_returned,        \* what interactive_search_with_external_tool returned
    call_site,              \* the function that called the finder bridge
    caller,                 \* what that function did with the bridge's answer
    prompts,                \* item recovery: the prompts offered for selection
    chosen,                 \* item recovery: the index of the prompt picked in the finder
    method,                 \* item recovery: how the caller maps the line to an item
    selected_line,          \* item recovery: the bridge's answer
    found,                  \* item recovery: the index the caller obtained
    recover_pc,             \* item recovery: start, answered, done
    fuzzy_items,            \* fuzzy_search: the items
    fuzzy_query,            \* fuzzy_search: the query
    results,                \* fuzzy_search: the (index, score) pairs
    fuzzy_pc,               \* fuzzy_search: start, scored, sorted
    size_probe,             \* pagination: what crossterm's size() reported
    line_count,             \* pagination: content.lines().count()
    build,                  \* pagination: debug or release build (overflow checks)
    terminal_height,        \* pagination: the height ask_and_display_content passes on
    paginate,               \* pagination: the decision of should_paginate
    page_pc,                \* pagination: start, sized, decided
    local_updated,          \* should_sync: timestamp of the local collection
    remote_updated,         \* should_sync: timestamp of the remote snippet
    force,                  \* should_sync: the force flag
    direction,              \* should_sync: the result
    sync_pc                 \* should_sync: start, done

termVars == <<raw_mode_active, bracketed_paste_active>>
editVars == <<lines, current_line, input, current_suggestion>>
menuVars == <<n_items, selected, selected_items, show_custom_input, custom_input>>
histVars == <<last_event, typed, pure, popped, fault, restore_failed, cleaned,
             restore_log, cursor_col, drawn_from>>
uiVars == <<raw_mode_active, bracketed_paste_active, op, pc, lines, current_line,
            input, current_suggestion, n_items, selected, selected_items,
            show_custom_input, custom_input, result, returned, last_event, typed,
            pure, popped, fault, restore_failed, cleaned, restore_log, cursor_col, drawn_from, cmd_outcome>>
finderVars == <<items, select_cmd, installed, search_pc, next_item, pending,
                stdin_pipe, stdin_closed, child, child_input, status, stdout,
                reaped, search_returned, call_site, caller,
                stderr_pipe, stderr_pending, drawn>>
recoverVars == <<prompts, chosen, method, selected_line, found, recover_pc>>
fuzzyVars == <<fuzzy_items, fuzzy_query, results, fuzzy_pc>>
pageVars == <<size_probe, line_count, build, terminal_height, paginate, page_pc>>
syncVars == <<local_updated, remote_updated, force, direction, sync_pc>>
notUiVars == <<finderVars, recoverVars, fuzzyVars, pageVars, syncVars>>
notFinderVars == <<uiVars, recoverVars, fuzzyVars, pageVars, syncVars>>
notRecoverVars == <<uiVars, finderVars, fuzzyVars, pageVars, syncVars>>
notFuzzyVars == <<uiVars, finderVars, recoverVars, pageVars, syncVars>>
notPageVars == <<uiVars, finderVars, recoverVars, fuzzyVars, syncVars>>
notSyncVars == <<uiVars, finderVars, recoverVars, fuzzyVars, pageVars>>
vars == <<uiVars, finderVars, recoverVars, fuzzyVars, pageVars, syncVars>>

---------------------------------------------------------------------------
(* Bounds of the model.                                                    *)

MaxLines == 2
MaxChars == 4
MaxItems == 3
MaxCandidates == 2
MaxPrompts == 2
MaxFuzzyLen == 2
MaxFuzzyItems == 2
MaxSize == 3
MaxLineCount == 3
MaxTime == 7
PipeCapacity == 4

\* The finder draws at most one byte more than its stderr pipe holds.
DrawBudget == PipeCapacity + 1

---------------------------------------------------------------------------
(* Characters and strings.                                                 *)

LF == "LF"
NUL == "NUL"
SP == " "

EditorChars == {"a", "b"}

RECURSIVE Concat(_)
Concat(ss) == IF ss = <<>> THEN <<>> ELSE Head(ss) \o Concat(Tail(ss))

\* Vec<String>::join(sep)
RECURSIVE Join(_, _)
JoinNoSeparator(ss, sep) == Concat(ss)
Join(ss, sep) ==
    IF ss = <<>> THEN <<>>
    ELSE IF Len(ss) = 1 THEN ss[1]
    ELSE ss[1] \o <<sep>> \o Join(Tail(ss), sep)

\* The segments of s between occurrences of sep (always at least one segment).
RECURSIVE SplitOn(_, _)
SplitOn(s, sep) ==
    IF \A i \in 1..Len(s) : s[i] # sep THEN <<s>>
    ELSE LET k == CHOOSE i \in 1..Len(s) :
                      s[i] = sep /\ \A j \in 1..(i - 1) : s[j] # sep
         IN <<SubSeq(s, 1, k - 1)>> \o SplitOn(SubSeq(s, k + 1, Len(s)), sep)

\* str::lines(): the segments between line feeds; a final empty segment (the
\* text is empty or ends with a line feed) is not a line.
StrLines(text) ==
    LET segs == SplitOn(text, LF)
    IN IF segs[Len(segs)] = <<>> THEN SubSeq(segs, 1, Len(segs) - 1) ELSE segs

IsSpace(c) == c \in {SP, LF}

\* str::trim()
RECURSIVE TrimStart(_)
TrimStart(s) == IF s # <<>> /\ IsSpace(s[1]) THEN TrimStart(Tail(s)) ELSE s
RECURSIVE TrimEnd(_)
TrimEnd(s) ==
    IF s # <<>> /\ IsSpace(s[Len(s)]) THEN TrimEnd(SubSeq(s, 1, Len(s) - 1)) ELSE s
Trim(s) == TrimEnd(TrimStart(s))

---------------------------------------------------------------------------
(* Outcomes: a Rust Result, Ok(val) or Err(err).                           *)

NoOutcome == [tag |-> "None", err |-> "", val |-> <<>>]
Ok(v) == [tag |-> "Ok", err |-> "", val |-> v]
Err(e) == [tag |-> "Err", err |-> e, val |-> <<>>]
Cancelled == Err("Input cancelled by user")
IoError == Err("io error")

NoEvent == [kind |-> "None", c |-> "", text |-> <<>>]
KeyEvent(k) == [kind |-> k, c |-> "", text |-> <<>>]
CharEvent(ch) == [kind |-> "Char", c |-> ch, text |-> <<>>]
PasteEvent(t) == [kind |-> "Paste", c |-> "", text |-> t]


---------------------------------------------------------------------------
(* The input buffer of prompt_multiline: committed lines and the current   *)
(* line, and what each key does to it.                                     *)

Buffer(ls, cur) == [lines |-> ls, cur |-> cur]

RECURSIVE SumLen(_)
SumLen(ss) == IF ss = <<>> THEN 0 ELSE Len(Head(ss)) + SumLen(Tail(ss))

\* The model's bound on the buffer while the editor is running.
BufferOK(b) == Len(b.lines) <= MaxLines /\ SumLen(b.lines) + Len(b.cur) <= MaxChars

\* Ctrl+J or Shift+Enter: lines.push(current_line.clone()); current_line.clear()
KeyLineBreakKeepsCurrent(b) == Buffer(Append(b.lines, b.cur), b.cur)
KeyLineBreak(b) == Buffer(Append(b.lines, b.cur), <<>>)

\* plain Enter: lines.push(current_line.clone()); break
KeyEnterDropsCurrent(b) == Buffer(b.lines, b.cur)
KeyEnter(b) == Buffer(Append(b.lines, b.cur), b.cur)

\* a character key: current_line.push(c)
KeyChar(b, c) == Buffer(b.lines, Append(b.cur, c))

\* Backspace
KeyBackspaceNeverPops(b) ==
    IF b.cur # <<>> THEN Buffer(b.lines, SubSeq(b.cur, 1, Len(b.cur) - 1)) ELSE b
KeyBackspace(b) ==
    IF b.cur # <<>>
    THEN Buffer(b.lines, SubSeq(b.cur, 1, Len(b.cur) - 1))          \* current_line.pop()
    ELSE IF b.lines # <<>>
    THEN Buffer(SubSeq(b.lines, 1, Len(b.lines) - 1), b.lines[Len(b.lines)])
                                                   \* current_line = lines.pop().unwrap()
    ELSE b

\* Event::Paste: the loop over pasted_text.lines().peekable()
RECURSIVE PasteLines(_, _)
PasteLines(b, pasted) ==
    IF pasted = <<>> THEN b
    ELSE IF Len(pasted) > 1
    THEN \* not the last line: lines.push(current_line.clone() + line); current_line.clear()
         PasteLines(Buffer(Append(b.lines, b.cur \o Head(pasted)), <<>>), Tail(pasted))
    ELSE \* the last line: current_line.push_str(line)
         Buffer(b.lines, b.cur \o Head(pasted))

PasteKeepsPrefixOnCurrent(b, text) ==
    LET p == StrLines(text)
    IN IF Len(p) <= 1 THEN PasteLines(b, p)
       ELSE Buffer(b.lines \o SubSeq(p, 1, Len(p) - 1), b.cur \o p[Len(p)])
Paste(b, text) == PasteLines(b, StrLines(text))

\* What the editor's match does with one event.
EditorApply(b, ev) ==
    CASE ev.kind = "LineBreak" -> KeyLineBreak(b)
      [] ev.kind = "Enter" -> KeyEnter(b)
      [] ev.kind = "Char" -> KeyChar(b, ev.c)
      [] ev.kind = "Backspace" -> KeyBackspace(b)
      [] ev.kind = "Paste" -> Paste(b, ev.text)
      [] OTHER -> b

\* Whether the handler of ev takes the branch in which lines.pop() runs.
PopsLine(b, ev) == ev.kind = "Backspace" /\ b.cur = <<>> /\ b.lines # <<>>

\* Whether the handler of ev writes to the terminal (a write that can fail).
EditorWrites(b, ev) ==
    \/ ev.kind \in {"LineBreak", "Char", "Paste"}
    \/ ev.kind = "Backspace" /\ (b.cur # <<>> \/ b.lines # <<>>)

\* The texts a paste event may carry.
PasteTexts ==
    { <<>>, <<"b">>, <<LF>>, <<"b", LF>>, <<LF, "b">>, <<"a", LF, "b">>,
      <<"a", LF, "b", LF>>, <<"a", LF, "b", LF, "a">>, <<LF, LF, "b">>,
      <<"b", LF, LF>> }

EditorEvents ==
    {CharEvent(c) : c \in EditorChars}
    \cup {KeyEvent(k) : k \in {"LineBreak", "Enter", "Backspace", "Esc", "Other"}}
    \cup {PasteEvent(t) : t \in PasteTexts}

\* The history of a session that consists of Char and line-break keys only.
TypedAfter(ev) ==
    CASE ev.kind = "Char" -> Append(typed, ev.c)
      [] ev.kind = "LineBreak" -> Append(typed, LF)
      [] ev.kind = "Enter" -> typed
      [] OTHER -> <<>>
PureAfter(ev) == pure /\ ev.kind \in {"Char", "LineBreak", "Enter"}

---------------------------------------------------------------------------
(* What the editor draws.  Columns are counted from 0, as crossterm's      *)
(* MoveToColumn counts them; the terminal is wider than any line of the    *)
(* model.  The screen is followed while the loop runs and not after it.    *)

\* cursor::MoveLeft(1): the cursor stops at the left edge.
MoveLeft(col) == IF col > 0 THEN col - 1 ELSE 0

\* cursor::MoveToColumn(1) in the arm that pops a line.
PopColumn == 1

\* The column of the cursor after the handler of ev has drawn.
CursorAfter(b, col, ev) ==
    CASE ev.kind = "LineBreak" -> 0                        \* print!("\r\n")
      [] ev.kind = "Char" -> col + 1                       \* print!("{}", c)
      [] ev.kind = "Backspace" /\ b.cur # <<>> -> MoveLeft(col)
      [] PopsLine(b, ev) ->
             \* MoveUp(1), MoveToColumn(1), Clear; print!("{}", current_line);
             \* then current_line.len() times MoveLeft(1)
             (PopColumn + Len(KeyBackspace(b).cur)) - Len(KeyBackspace(b).cur)
      [] ev.kind = "Paste" ->
             LET p == StrLines(ev.text)
             IN  IF p = <<>> THEN col
                 ELSE IF Len(p) = 1 THEN col + Len(p[1])
                 ELSE Len(p[Len(p)])       \* after the last print!("{}\r\n", line)
      [] OTHER -> col

\* The column where the text of the current line starts.
DrawnFromAfter(b, from, ev) ==
    CASE ev.kind = "LineBreak" -> 0
      [] PopsLine(b, ev) -> PopColumn
      [] ev.kind = "Paste" /\ Len(StrLines(ev.text)) > 1 -> 0
      [] OTHER -> from

\* The cleanup of prompt_multiline, one entry per statement, in program order.
RestoreSteps == <<"DisableBracketedPaste", "disable_raw_mode", "println">>

---------------------------------------------------------------------------
(* The state before an interactive operation is called.                    *)

Idle ==
    /\ op = "none" /\ pc = "idle"
    /\ lines = <<>> /\ current_line = <<>>
    /\ input = <<>> /\ current_suggestion = <<>>
    /\ n_items = 0 /\ selected = 0 /\ selected_items = {}
    /\ show_custom_input = FALSE /\ custom_input = <<>>
    /\ result = NoOutcome /\ returned = NoOutcome
    /\ last_event = NoEvent /\ typed = <<>> /\ pure = TRUE /\ popped = FALSE
    /\ fault = "none" /\ restore_failed = FALSE /\ cleaned = FALSE
    /\ restore_log = <<>> /\ cursor_col = 0 /\ drawn_from = 0
    /\ cmd_outcome = NoOutcome

UiInit ==
    /\ raw_mode_active = FALSE
    /\ bracketed_paste_active = FALSE
    /\ Idle

---------------------------------------------------------------------------
(* prompt_multiline of src/utils/interactive.rs.                           *)

\* println!; terminal::enable_raw_mode()?; let _ = execute!(EnableBracketedPaste)
CallPromptMultiline ==
    /\ pc = "idle"
    /\ op' = "prompt_multiline"
    /\ \E raw_ok \in BOOLEAN, paste_ok \in BOOLEAN :
          IF raw_ok
          THEN /\ raw_mode_active' = TRUE
               /\ bracketed_paste_active' = (paste_ok \/ bracketed_paste_active)
               /\ pc' = "loop"
               /\ fault' = IF paste_ok THEN "none" ELSE "enable_paste"
               /\ UNCHANGED returned
          ELSE /\ paste_ok
               /\ pc' = "returned"
               /\ returned' = IoError
               /\ fault' = "enable_raw"
               /\ UNCHANGED termVars
    /\ UNCHANGED <<editVars, menuVars, result, last_event, typed, pure, popped,
                   restore_failed, cleaned, restore_log, cursor_col, drawn_from, cmd_outcome>>

\* One iteration of the loop inside the closure: event::read()? and the match.
\* The closure's locals (lines, current_line) are dropped when it returns.
PromptMultilineEvent ==
    /\ pc = "loop" /\ op = "prompt_multiline"
    /\ \/ \* event::read() failed
          /\ result' = IoError
          /\ pc' = "cleanup"
          /\ fault' = "read"
          /\ lines' = <<>> /\ current_line' = <<>>
          /\ last_event' = NoEvent /\ typed' = <<>> /\ pure' = FALSE
          /\ popped' = FALSE
          /\ cursor_col' = 0 /\ drawn_from' = 0
       \/ \E ev \in EditorEvents, write_ok \in BOOLEAN :
             LET b == EditorApply(Buffer(lines, current_line), ev)
             IN /\ ev.kind = "Enter" \/ BufferOK(b)
                /\ ev.kind = "Paste" => bracketed_paste_active
                /\ write_ok \/ EditorWrites(Buffer(lines, current_line), ev)
                /\ last_event' = ev
                /\ popped' = PopsLine(Buffer(lines, current_line), ev)
                /\ fault' = IF write_ok THEN "none" ELSE "write"
                /\ IF ~write_ok
                   THEN /\ result' = IoError /\ pc' = "cleanup"
                        /\ lines' = <<>> /\ current_line' = <<>>
                        /\ typed' = <<>> /\ pure' = FALSE
                        /\ cursor_col' = 0 /\ drawn_from' = 0
                   ELSE CASE ev.kind = "Enter" ->
                                 /\ result' = Ok(Join(b.lines, LF)) /\ pc' = "cleanup"
                                 /\ lines' = <<>> /\ current_line' = <<>>
                                 /\ typed' = TypedAfter(ev) /\ pure' = PureAfter(ev)
                                 /\ cursor_col' = 0 /\ drawn_from' = 0
                          [] ev.kind = "Esc" ->
                                 /\ result' = Cancelled /\ pc' = "cleanup"
                                 /\ lines' = <<>> /\ current_line' = <<>>
                                 /\ typed' = <<>> /\ pure' = FALSE
                                 /\ cursor_col' = 0 /\ drawn_from' = 0
                          [] OTHER ->
                                 /\ lines' = b.lines /\ current_line' = b.cur
                                 /\ typed' = TypedAfter(ev) /\ pure' = PureAfter(ev)
                                 /\ cursor_col' =
                                        CursorAfter(Buffer(lines, current_line), cursor_col, ev)
                                 /\ drawn_from' =
                                        DrawnFromAfter(Buffer(lines, current_line), drawn_from, ev)
                                 /\ UNCHANGED <<result, pc>>
    /\ UNCHANGED <<termVars, op, input, current_suggestion, menuVars, returned,
                   restore_failed, cleaned, restore_log, cmd_outcome>>

\* let _ = execute!(DisableBracketedPaste); let _ = disable_raw_mode(); println!(); result
PromptMultilineCleanup ==
    /\ pc = "cleanup" /\ op = "prompt_multiline"
    /\ \E paste_ok \in BOOLEAN, raw_ok \in BOOLEAN :
          /\ bracketed_paste_active' = (bracketed_paste_active /\ ~paste_ok)
          /\ raw_mode_active' = (raw_mode_active /\ ~raw_ok)
          /\ restore_failed' = (~paste_ok \/ ~raw_ok)
    /\ returned' = result
    /\ cleaned' = TRUE
    /\ restore_log' = RestoreSteps
    /\ pc' = "returned"
    /\ UNCHANGED <<op, editVars, menuVars, result, last_event, typed, pure, popped, fault,
                   cursor_col, drawn_from, cmd_outcome>>

---------------------------------------------------------------------------
(* prompt_multiline of src/utils.rs: raw mode is switched on at the top of *)
(* every iteration and off at its end; there is no paste arm.              *)

UtilsRsEvents ==
    {CharEvent(c) : c \in EditorChars}
    \cup {KeyEvent(k) : k \in {"LineBreak", "Enter", "Backspace", "Esc", "Other"}}

\* the three println! before the loop
CallUtilsRsPromptMultiline ==
    /\ pc = "idle"
    /\ op' = "utils_rs_prompt_multiline"
    /\ pc' = "loop"
    /\ UNCHANGED <<termVars, editVars, menuVars, result, returned, histVars,
                   cmd_outcome>>

\* One iteration: enable_raw_mode()?; event::read()?; the match; disable_raw_mode()?
\* `failing` names the call of this iteration that fails, if any.
UtilsRsPromptMultilineIteration ==
    /\ pc = "loop" /\ op = "utils_rs_prompt_multiline"
    /\ \E ev \in UtilsRsEvents, failing \in {"none", "enable_raw", "read", "write", "disable_raw"} :
          LET b0 == Buffer(lines, current_line)
              b == EditorApply(b0, ev)
              leave(ret, raw, rf, cl, e) ==
                  /\ returned' = ret /\ pc' = "returned"
                  /\ raw_mode_active' = raw
                  /\ restore_failed' = rf /\ cleaned' = cl
                  /\ cursor_col' = 0 /\ drawn_from' = 0
                  /\ lines' = <<>> /\ current_line' = <<>>
                  /\ last_event' = e
                  /\ typed' = IF ret.tag = "Ok" THEN TypedAfter(ev) ELSE <<>>
                  /\ pure' = IF ret.tag = "Ok" THEN PureAfter(ev) ELSE FALSE
          IN /\ ev.kind = "Enter" \/ BufferOK(b)
             /\ failing = "write" => EditorWrites(b0, ev)
             /\ failing = "disable_raw" => ev.kind # "Enter"
             /\ failing \in {"enable_raw", "read"} => ev = KeyEvent("Other")
             /\ fault' = failing
             /\ popped' = (failing \in {"none", "write", "disable_raw"} /\ PopsLine(b0, ev))
             /\ CASE failing = "enable_raw" ->
                         leave(IoError, raw_mode_active, FALSE, FALSE, NoEvent)
                  [] failing = "read" ->
                         leave(IoError, TRUE, FALSE, FALSE, NoEvent)
                  [] failing = "write" ->
                         leave(IoError, TRUE, FALSE, FALSE, ev)
                  [] failing = "disable_raw" ->
                         \* terminal::disable_raw_mode()? fails: raw mode stays on
                         leave(IoError, TRUE, TRUE, TRUE, ev)
                  [] failing = "none" /\ ev.kind = "Enter" ->
                         \* break; let _ = terminal::disable_raw_mode(); println!()
                         \E raw_ok \in BOOLEAN :
                            leave(Ok(Join(b.lines, LF)), ~raw_ok, ~raw_ok, TRUE, ev)
                  [] failing = "none" /\ ev.kind = "Esc" ->
                         leave(Cancelled, FALSE, FALSE, TRUE, ev)
                  [] OTHER ->
                         /\ lines' = b.lines /\ current_line' = b.cur
                         /\ last_event' = ev
                         /\ typed' = TypedAfter(ev) /\ pure' = PureAfter(ev)
                         /\ raw_mode_active' = FALSE
                         /\ cursor_col' = CursorAfter(b0, cursor_col, ev)
                         /\ drawn_from' = DrawnFromAfter(b0, drawn_from, ev)
                         /\ UNCHANGED <<returned, pc, restore_failed, cleaned>>
    /\ UNCHANGED <<bracketed_paste_active, restore_log, op, input, current_suggestion, menuVars,
                   result, cmd_outcome>>

---------------------------------------------------------------------------
(* prompt_input_with_autocomplete of src/utils/interactive.rs.             *)

AutoChars == {"a", SP}

\* The suggestions the caller passes (existing tags or categories).
Suggestions == << <<"a", "a", "b">>, <<"a", SP, "a">> >>

StartsWith(s, prefix) ==
    Len(prefix) <= Len(s) /\ SubSeq(s, 1, Len(prefix)) = prefix

\* The completion shown for the text typed: the rest of the first suggestion that
\* starts with it and differs from it, once at least 2 characters are typed.
SuggestionFor(txt) ==
    LET hits == {k \in 1..Len(Suggestions) :
                    StartsWith(Suggestions[k], txt) /\ Suggestions[k] # txt}
    IN IF Len(txt) >= 2 /\ hits # {}
       THEN LET k == CHOOSE k \in hits : \A m \in hits : k <= m
            IN SubSeq(Suggestions[k], Len(txt) + 1, Len(Suggestions[k]))
       ELSE <<>>

AutoEvents ==
    {CharEvent(c) : c \in AutoChars}
    \cup {KeyEvent(k) : k \in {"Tab", "Enter", "Backspace", "Esc", "Other"}}

\* print!; flush()?; terminal::enable_raw_mode()?
CallPromptInputWithAutocomplete ==
    /\ pc = "idle"
    /\ op' = "prompt_input_with_autocomplete"
    /\ \E failing \in {"none", "write", "enable_raw"} :
          /\ fault' = failing
          /\ IF failing = "none"
             THEN raw_mode_active' = TRUE /\ pc' = "loop" /\ UNCHANGED returned
             ELSE returned' = IoError /\ pc' = "returned" /\ UNCHANGED raw_mode_active
    /\ UNCHANGED <<bracketed_paste_active, editVars, menuVars, result, last_event,
                   typed, pure, popped, restore_failed, cleaned, restore_log, cursor_col, drawn_from, cmd_outcome>>

\* One iteration of the loop inside the closure.
PromptInputWithAutocompleteEvent ==
    /\ pc = "loop" /\ op = "prompt_input_with_autocomplete"
    /\ \/ \* event::read() failed
          /\ result' = IoError /\ pc' = "cleanup" /\ fault' = "read"
          /\ input' = <<>> /\ current_suggestion' = <<>>
          /\ last_event' = NoEvent
       \/ \E ev \in AutoEvents, write_ok \in BOOLEAN :
             LET changes ==
                     \/ ev.kind = "Char"
                     \/ ev.kind = "Tab" /\ current_suggestion # <<>>
                     \/ ev.kind = "Backspace" /\ input # <<>>
                 new_input ==
                     CASE ev.kind = "Char" -> Append(input, ev.c)
                       [] ev.kind = "Tab" -> input \o current_suggestion
                       [] ev.kind = "Backspace" /\ input # <<>> ->
                              SubSeq(input, 1, Len(input) - 1)
                       [] OTHER -> input
             IN /\ Len(new_input) <= MaxChars
                /\ write_ok \/ changes
                /\ last_event' = ev
                /\ fault' = IF write_ok THEN "none" ELSE "write"
                /\ IF ~write_ok
                   THEN /\ result' = IoError /\ pc' = "cleanup"
                        /\ input' = <<>> /\ current_suggestion' = <<>>
                   ELSE CASE ev.kind = "Enter" ->
                                 /\ result' = Ok(Trim(input)) /\ pc' = "cleanup"
                                 /\ input' = <<>> /\ current_suggestion' = <<>>
                          [] ev.kind = "Esc" ->
                                 /\ result' = Cancelled /\ pc' = "cleanup"
                                 /\ input' = <<>> /\ current_suggestion' = <<>>
                          [] OTHER ->
                                 /\ input' = new_input
                                 /\ current_suggestion' =
                                        IF ~changes THEN current_suggestion
                                        ELSE IF ev.kind = "Tab" THEN <<>>
                                        ELSE SuggestionFor(new_input)
                                 /\ UNCHANGED <<result, pc>>
    /\ UNCHANGED <<termVars, op, lines, current_line, menuVars, returned, typed, pure, popped,
                   restore_failed, cleaned, restore_log, cursor_col, drawn_from, cmd_outcome>>

\* terminal::disable_raw_mode()?; println!(); result
PromptInputWithAutocompleteCleanup ==
    /\ pc = "cleanup" /\ op = "prompt_input_with_autocomplete"
    /\ \E raw_ok \in BOOLEAN :
          /\ raw_mode_active' = (raw_mode_active /\ ~raw_ok)
          /\ restore_failed' = ~raw_ok
          /\ returned' = IF raw_ok THEN result ELSE IoError
    /\ cleaned' = TRUE
    /\ pc' = "returned"
    /\ UNCHANGED <<bracketed_paste_active, op, editVars, menuVars, result, last_event,
                   typed, pure, popped, fault, restore_log, cursor_col, drawn_from,
                   cmd_outcome>>

---------------------------------------------------------------------------
(* The menus: select_from_list of src/utils/interactive.rs, and            *)
(* multi_select_from_list and select_from_list_with_custom of src/utils.rs.*)
(* Rows are numbered from 0 as in the code; only the number of items       *)
(* matters to the menus.                                                   *)

MenuChars == {"q", SP, "c", "a"}

MenuEvents ==
    {CharEvent(c) : c \in MenuChars}
    \cup {KeyEvent(k) : k \in {"Up", "Down", "Enter", "Backspace", "Esc", "Other"}}

\* Option<usize>
None == <<>>
Some(i) == <<i>>

\* What select_from_list returns on q or Escape: break Ok(None).
SelectCancelled == Ok(None)

\* What multi_select_from_list returns on q or Escape: break Ok(Vec::new()).
MultiSelectCancelled == Ok(<<>>)

\* selected.saturating_sub(1)
MoveUpWraps(sel, n) == IF sel > 0 THEN sel - 1 ELSE n - 1
MoveUp(sel, n) == IF sel > 0 THEN sel - 1 ELSE 0

\* if selected < items.len() - 1 { selected += 1 }
MoveDownUnclamped(sel, n) == sel + 1
MoveDown(sel, n) == IF sel < n - 1 THEN sel + 1 ELSE sel

\* The indices of a set in increasing order: the filter_map over enumerate().
RECURSIVE SortedSeq(_)
SortedSeq(S) ==
    IF S = {} THEN <<>>
    ELSE LET m == CHOOSE x \in S : \A y \in S : x <= y
         IN <<m>> \o SortedSeq(S \ {m})

\* if items.is_empty() { return Ok(None) }; enable_raw_mode()?; execute!(Clear, MoveTo)?
CallSelectFromList ==
    /\ pc = "idle"
    /\ op' = "select_from_list"
    /\ \E n \in 0..MaxItems, failing \in {"none", "enable_raw", "write"} :
          /\ n_items' = n
          /\ n = 0 => failing = "none"
          /\ fault' = failing
          /\ IF n = 0
             THEN returned' = Ok(None) /\ pc' = "returned" /\ UNCHANGED raw_mode_active
             ELSE CASE failing = "enable_raw" ->
                           /\ returned' = IoError /\ pc' = "returned"
                           /\ UNCHANGED raw_mode_active
                    [] failing = "write" ->
                           \* the `?` returns with raw mode on
                           /\ returned' = IoError /\ pc' = "returned"
                           /\ raw_mode_active' = TRUE
                    [] OTHER ->
                           /\ pc' = "loop" /\ raw_mode_active' = TRUE
                           /\ UNCHANGED returned
    /\ UNCHANGED <<bracketed_paste_active, editVars, selected, selected_items,
                   show_custom_input, custom_input, result, last_event, typed, pure, popped,
                   restore_failed, cleaned, restore_log, cursor_col, drawn_from, cmd_outcome>>

\* One iteration of the loop: the redraw (execute!(..)?), event::read()? and the match.
\* The loop is not a closure: a `?` in it returns from select_from_list at once.
SelectFromListIteration ==
    /\ pc = "loop" /\ op = "select_from_list"
    /\ \/ \E failing \in {"write", "read"} :
             /\ returned' = IoError /\ pc' = "returned" /\ fault' = failing
             /\ last_event' = NoEvent
             /\ UNCHANGED <<selected, result>>
       \/ \E ev \in MenuEvents :
             /\ last_event' = ev
             /\ fault' = "none"
             /\ UNCHANGED returned
             /\ CASE ev.kind = "Up" ->
                         selected' = MoveUp(selected, n_items) /\ UNCHANGED <<result, pc>>
                  [] ev.kind = "Down" ->
                         selected' = MoveDown(selected, n_items) /\ UNCHANGED <<result, pc>>
                  [] ev.kind = "Enter" ->
                         result' = Ok(Some(selected)) /\ pc' = "cleanup" /\ UNCHANGED selected
                  [] ev.kind = "Esc" \/ (ev.kind = "Char" /\ ev.c = "q") ->
                         result' = SelectCancelled /\ pc' = "cleanup" /\ UNCHANGED selected
                  [] OTHER ->
                         UNCHANGED <<selected, result, pc>>
    /\ UNCHANGED <<termVars, op, editVars, n_items, selected_items, show_custom_input,
                   custom_input, typed, pure, popped, restore_failed, cleaned, restore_log, cursor_col, drawn_from, cmd_outcome>>

\* selected_items[selected] = !selected_items[selected]
ToggleAdds(S, i) == S \cup {i}
Toggle(S, i) == IF i \in S THEN S \ {i} ELSE S \cup {i}

\* if items.is_empty() { return Ok(Vec::new()) }; enable_raw_mode()?; execute!(..)?
CallMultiSelectFromList ==
    /\ pc = "idle"
    /\ op' = "multi_select_from_list"
    /\ \E n \in 0..MaxItems, failing \in {"none", "enable_raw", "write"} :
          /\ n_items' = n
          /\ n = 0 => failing = "none"
          /\ fault' = failing
          /\ IF n = 0
             THEN returned' = Ok(<<>>) /\ pc' = "returned" /\ UNCHANGED raw_mode_active
             ELSE CASE failing = "enable_raw" ->
                           /\ returned' = IoError /\ pc' = "returned"
                           /\ UNCHANGED raw_mode_active
                    [] failing = "write" ->
                           /\ returned' = IoError /\ pc' = "returned"
                           /\ raw_mode_active' = TRUE
                    [] OTHER ->
                           /\ pc' = "loop" /\ raw_mode_active' = TRUE
                           /\ UNCHANGED returned
    /\ UNCHANGED <<bracketed_paste_active, editVars, selected, selected_items,
                   show_custom_input, custom_input, result, last_event, typed, pure, popped,
                   restore_failed, cleaned, restore_log, cursor_col, drawn_from, cmd_outcome>>

\* One iteration of the loop of multi_select_from_list.
MultiSelectFromListIteration ==
    /\ pc = "loop" /\ op = "multi_select_from_list"
    /\ \/ \E failing \in {"write", "read"} :
             /\ returned' = IoError /\ pc' = "returned" /\ fault' = failing
             /\ last_event' = NoEvent
             /\ UNCHANGED <<selected, selected_items, result>>
       \/ \E ev \in MenuEvents :
             /\ last_event' = ev
             /\ fault' = "none"
             /\ UNCHANGED returned
             /\ CASE ev.kind = "Up" ->
                         /\ selected' = MoveUp(selected, n_items)
                         /\ UNCHANGED <<selected_items, result, pc>>
                  [] ev.kind = "Down" ->
                         /\ selected' = MoveDown(selected, n_items)
                         /\ UNCHANGED <<selected_items, result, pc>>
                  [] ev.kind = "Char" /\ ev.c = SP ->
                         /\ selected_items' = Toggle(selected_items, selected)
                         /\ UNCHANGED <<selected, result, pc>>
                  [] ev.kind = "Enter" ->
                         /\ result' = Ok(SortedSeq(selected_items)) /\ pc' = "cleanup"
                         /\ UNCHANGED <<selected, selected_items>>
                  [] ev.kind = "Esc" \/ (ev.kind = "Char" /\ ev.c = "q") ->
                         /\ result' = MultiSelectCancelled /\ pc' = "cleanup"
                         /\ UNCHANGED <<selected, selected_items>>
                  [] OTHER ->
                         UNCHANGED <<selected, selected_items, result, pc>>
    /\ UNCHANGED <<termVars, op, editVars, n_items, show_custom_input, custom_input,
                   typed, pure, popped, restore_failed, cleaned, restore_log, cursor_col, drawn_from, cmd_outcome>>

\* The lines prompt_input may read for the custom value when there are no items.
InputLines == { <<>>, <<SP>>, <<"a">> }
LineEvent(t) == [kind |-> "Line", c |-> "", text |-> t]

\* With no items: prompt_input(custom_prompt)?, Ok(None) for an empty line and an
\* error otherwise. With items: enable_raw_mode()?; execute!(Clear, MoveTo)?
CallSelectFromListWithCustom ==
    /\ pc = "idle"
    /\ op' = "select_from_list_with_custom"
    /\ \E n \in 0..MaxItems, failing \in {"none", "enable_raw", "write", "read"} :
          /\ n_items' = n
          /\ fault' = failing
          /\ IF n = 0
             THEN /\ failing # "enable_raw"
                  /\ pc' = "returned"
                  /\ UNCHANGED raw_mode_active
                  /\ IF failing # "none"
                     THEN returned' = IoError /\ UNCHANGED last_event
                     ELSE \E line \in InputLines :
                             /\ last_event' = LineEvent(line)
                             /\ returned' =
                                    IF Trim(line) = <<>> THEN Ok(None)
                                    ELSE Err("Custom input not implemented in this function")
             ELSE /\ failing # "read"
                  /\ UNCHANGED last_event
                  /\ CASE failing = "enable_raw" ->
                               /\ returned' = IoError /\ pc' = "returned"
                               /\ UNCHANGED raw_mode_active
                       [] failing = "write" ->
                               /\ returned' = IoError /\ pc' = "returned"
                               /\ raw_mode_active' = TRUE
                       [] OTHER ->
                               /\ pc' = "loop" /\ raw_mode_active' = TRUE
                               /\ UNCHANGED returned
    /\ UNCHANGED <<bracketed_paste_active, editVars, selected, selected_items,
                   show_custom_input, custom_input, result, typed, pure, popped,
                   restore_failed, cleaned, restore_log, cursor_col, drawn_from, cmd_outcome>>

\* One iteration of the loop of select_from_list_with_custom. The arms are tried
\* in the order of the match: Up, Down, Enter, Char('c'), Char(ch) while
\* capturing, Backspace while capturing, Char('q'), Esc.
SelectFromListWithCustomIteration ==
    /\ pc = "loop" /\ op = "select_from_list_with_custom"
    /\ \/ \E failing \in {"write", "read"} :
             /\ returned' = IoError /\ pc' = "returned" /\ fault' = failing
             /\ last_event' = NoEvent
             /\ UNCHANGED <<termVars, selected, show_custom_input, custom_input, result,
                            restore_failed>>
       \/ \E ev \in MenuEvents, failing \in {"none", "disable_raw", "clear", "enable_raw"} :
             LET stay == UNCHANGED <<termVars, result, returned, pc, restore_failed>>
             IN
             /\ last_event' = ev
             /\ fault' = failing
             /\ failing # "none" => ev.kind = "Enter" /\ show_custom_input
             /\ failing = "enable_raw" => custom_input = <<>>
             /\ CASE ev.kind = "Up" ->
                         /\ selected' = IF selected > 0 /\ ~show_custom_input
                                        THEN selected - 1 ELSE selected
                         /\ UNCHANGED <<show_custom_input, custom_input>>
                         /\ stay
                  [] ev.kind = "Down" ->
                         /\ selected' = IF selected < n_items /\ ~show_custom_input
                                        THEN selected + 1 ELSE selected
                         /\ UNCHANGED <<show_custom_input, custom_input>>
                         /\ stay
                  [] ev.kind = "Enter" /\ show_custom_input ->
                         \* disable_raw_mode()?; execute!(Clear, MoveTo)?;
                         \* return Ok(None) for a non-empty text, else
                         \* show_custom_input = false; enable_raw_mode()?
                         /\ UNCHANGED <<selected, custom_input, result,
                                        bracketed_paste_active>>
                         /\ raw_mode_active' =
                                (failing = "disable_raw"
                                 \/ (failing = "none" /\ custom_input = <<>>))
                         /\ restore_failed' = (failing \in {"disable_raw", "clear"})
                         /\ IF failing # "none"
                            THEN /\ returned' = IoError /\ pc' = "returned"
                                 /\ show_custom_input' =
                                        IF failing = "enable_raw" THEN FALSE
                                        ELSE show_custom_input
                            ELSE IF custom_input # <<>>
                            THEN /\ returned' = Ok(None) /\ pc' = "returned"
                                 /\ UNCHANGED show_custom_input
                            ELSE /\ show_custom_input' = FALSE
                                 /\ UNCHANGED <<returned, pc>>
                  [] ev.kind = "Enter" /\ ~show_custom_input /\ selected = n_items ->
                         /\ show_custom_input' = TRUE
                         /\ custom_input' = <<>>
                         /\ UNCHANGED selected
                         /\ stay
                  [] ev.kind = "Enter" /\ ~show_custom_input /\ selected # n_items ->
                         /\ result' = Ok(Some(selected)) /\ pc' = "cleanup"
                         /\ UNCHANGED <<termVars, selected, show_custom_input, custom_input,
                                        returned, restore_failed>>
                  [] ev.kind = "Char" /\ ev.c = "c" ->
                         /\ show_custom_input' = TRUE
                         /\ custom_input' = <<>>
                         /\ UNCHANGED selected
                         /\ stay
                  [] ev.kind = "Char" /\ ev.c # "c" /\ show_custom_input ->
                         \* every character of MenuChars is ASCII and not a control
                         /\ Len(custom_input) < MaxChars
                         /\ custom_input' = Append(custom_input, ev.c)
                         /\ UNCHANGED <<selected, show_custom_input>>
                         /\ stay
                  [] ev.kind = "Backspace" /\ show_custom_input ->
                         /\ custom_input' =
                                IF custom_input = <<>> THEN <<>>
                                ELSE SubSeq(custom_input, 1, Len(custom_input) - 1)
                         /\ UNCHANGED <<selected, show_custom_input>>
                         /\ stay
                  [] \/ ev.kind = "Esc"
                     \/ (ev.kind = "Char" /\ ev.c = "q" /\ ~show_custom_input) ->
                         /\ result' = Ok(None) /\ pc' = "cleanup"
                         /\ UNCHANGED <<termVars, selected, show_custom_input, custom_input,
                                        returned, restore_failed>>
                  [] OTHER ->
                         /\ UNCHANGED <<selected, show_custom_input, custom_input>>
                         /\ stay
    /\ UNCHANGED <<op, editVars, n_items, selected_items, typed, pure, popped, cleaned,
                   restore_log, cursor_col, drawn_from, cmd_outcome>>

\* terminal::disable_raw_mode()?; execute!(Clear, MoveTo)?; result
\* (the same three lines end all three menus)
MenuCleanup ==
    /\ pc = "cleanup"
    /\ op \in {"select_from_list", "multi_select_from_list", "select_from_list_with_custom"}
    /\ \E failing \in {"none", "disable_raw", "clear"} :
          /\ raw_mode_active' = (raw_mode_active /\ failing = "disable_raw")
          /\ restore_failed' = (failing # "none")
          /\ returned' = IF failing = "none" THEN result ELSE IoError
    /\ cleaned' = TRUE
    /\ pc' = "returned"
    /\ UNCHANGED <<bracketed_paste_active, op, editVars, menuVars, result, last_event,
                   typed, pure, popped, fault, restore_log, cursor_col, drawn_from,
                   cmd_outcome>>

---------------------------------------------------------------------------
(* The `new` command, which asks for the prompt's content with             *)
(* prompt_multiline.                                                       *)

SystemError(msg) == Err("System error: " \o msg)

\* src/commands/new.rs: utils::prompt_multiline("Prompt content:")? -- the `?`
\* hands every Err of the editor on as the command's own error.
HandleNewCommandContent(outcome) ==
    IF outcome.tag = "Err" THEN outcome ELSE Ok(outcome.val)

\* src/manager/crud.rs: match utils::prompt_multiline(..) { Some(content) =>
\* Ok(content), None => Err(AppError::System("Operation cancelled by user")) }
ResolvePromptContent(content) ==
    IF content # None THEN Ok(content[1])
    ELSE SystemError("Operation cancelled by user")

HandleNewCommand ==
    /\ pc = "returned"
    /\ op \in {"prompt_multiline", "utils_rs_prompt_multiline"}
    /\ cmd_outcome' = HandleNewCommandContent(returned)
    /\ pc' = "done"
    /\ UNCHANGED <<termVars, op, editVars, menuVars, result, returned, histVars>>

\* The call site takes the editor's outcome as an Option<String>: an outcome that
\* carries no content is None.
ResolvePromptContentStep ==
    /\ pc = "returned"
    /\ op \in {"prompt_multiline", "utils_rs_prompt_multiline"}
    /\ LET content == IF returned.tag = "Ok" THEN Some(returned.val) ELSE None
       IN cmd_outcome' = ResolvePromptContent(content)
    /\ pc' = "done"
    /\ UNCHANGED <<termVars, op, editVars, menuVars, result, returned, histVars>>

---------------------------------------------------------------------------
(* interactive_search_with_external_tool of src/utils/search.rs and the    *)
(* finder it spawns.  The parent writes the candidates to the child's      *)
(* stdin through a pipe while the child reads them; the child may exit at  *)
(* any time, and the parent then collects its status and its output.       *)

Fzf == <<"f", "z", "f">>
Peco == <<"p", "e", "c", "o">>
Executables == {Fzf, Peco}
SelectCommands ==
    {<<>>, <<SP>>, Fzf, Peco, <<SP>> \o Fzf \o <<SP, "-", "e">>}

Candidates == {<<"x">>, <<"x", LF, "y">>, <<SP, "x">>}
CandidateLists == UNION {[1..n -> Candidates] : n \in 0..MaxCandidates}
ExitStatuses == {0, 1, 130}

\* str::split_whitespace(): the non-empty runs of non-whitespace characters.
RECURSIVE SplitWhitespace(_)
SplitWhitespace(s) ==
    LET t == TrimStart(s)
    IN IF t = <<>> THEN <<>>
       ELSE LET k == CHOOSE i \in 1..(Len(t) + 1) :
                         /\ i = Len(t) + 1 \/ IsSpace(t[i])
                         /\ \A j \in 1..(i - 1) : ~IsSpace(t[j])
            IN <<SubSeq(t, 1, k - 1)>> \o SplitWhitespace(SubSeq(t, k, Len(t)))

\* Command::new(cmd_parts[0]).arg("--version").output()
ProbeVersion(exe) ==
    IF exe \in installed THEN Ok(<<>>) ELSE Err("No such file or directory")

\* What the bridge returns straight after the probe, NoOutcome when it goes on.
AfterProbePropagatesError(probe) ==
    IF probe.tag = "Ok" THEN NoOutcome ELSE probe
AfterProbe(probe) ==
    IF probe.tag = "Ok" THEN NoOutcome ELSE Ok(None)

\* writeln!(stdin, "{}", item): the bytes of one candidate on the pipe.
ItemRecord(item) == item \o <<LF>>

\* The candidates the finder presents: it is started without --read0, so
\* it takes one candidate per line of its input.
FinderRecords(bytes) == StrLines(bytes)

\* What a finder that exits with status 0 can have printed: nothing, the
\* accepted candidate on a line, or (when the configured command asks for
\* the key to be reported) a line naming the key and then the candidate.
FinderOutputs(records) ==
    {<<>>}
    \cup {r \o <<LF>> : r \in {records[i] : i \in 1..Len(records)}}
    \cup {key \o <<LF>> \o r \o <<LF>> :
              key \in {<<>>, <<"k">>}, r \in {records[i] : i \in 1..Len(records)}}

\* The value computed from the child's status and output.
SearchResult(st, out) ==
    IF st # 0 THEN Ok(None)
    ELSE LET selected_text == Trim(out)
         IN IF selected_text = <<>> THEN Ok(None) ELSE Ok(Some(selected_text))

SearchIdle ==
    /\ search_pc = "idle" /\ next_item = 0 /\ pending = <<>>
    /\ stdin_pipe = <<>> /\ stdin_closed = FALSE
    /\ child = "none" /\ child_input = <<>> /\ status = 0 /\ stdout = <<>>
    /\ reaped = FALSE /\ search_returned = NoOutcome
    /\ caller = "none"
    /\ stderr_pipe = 0 /\ stderr_pending = 0 /\ drawn = 0

\* No fuzzy search is in progress.
FuzzyIdle ==
    /\ fuzzy_items = <<>> /\ fuzzy_query = <<>> /\ results = <<>>
    /\ fuzzy_pc = "idle"

\* No pagination decision is in progress.
PageIdle ==
    /\ size_probe = NoOutcome /\ line_count = 0 /\ build = "release"
    /\ terminal_height = 0 /\ paginate = "none" /\ page_pc = "idle"

\* No sync decision is in progress.
SyncIdle ==
    /\ local_updated = 0 /\ remote_updated = 0 /\ force = FALSE
    /\ direction = "none" /\ sync_pc = "idle"

\* No item recovery is in progress.
RecoverIdle ==
    /\ prompts = <<>> /\ chosen = 0 /\ method = "position"
    /\ selected_line = NoOutcome /\ found = None /\ recover_pc = "idle"

\* Entry of the bridge up to the probe of the executable.
CallInteractiveSearch ==
    /\ search_pc = "idle"
    /\ LET cmd_parts == SplitWhitespace(select_cmd)
           early == IF items = <<>> THEN Ok(None)
                    ELSE IF cmd_parts = <<>> THEN Err("Invalid select command")
                    ELSE AfterProbe(ProbeVersion(cmd_parts[1]))
       IN IF early # NoOutcome
          THEN search_pc' = "returned" /\ search_returned' = early
          ELSE search_pc' = "spawn" /\ UNCHANGED search_returned
    /\ UNCHANGED <<items, select_cmd, installed, call_site, caller, next_item, pending, stdin_pipe,
                   stdin_closed, child, child_input, status, stdout, reaped>>
    /\ UNCHANGED <<stderr_pipe, stderr_pending, drawn>>
    /\ UNCHANGED notFinderVars

\* cmd.spawn().with_context(..)?
SpawnFinder ==
    /\ search_pc = "spawn"
    /\ \E spawn_ok \in BOOLEAN :
          IF spawn_ok
          THEN /\ child' = "running" /\ search_pc' = "write"
               /\ next_item' = 1 /\ pending' = ItemRecord(items[1])
               /\ UNCHANGED search_returned
          ELSE /\ search_pc' = "returned"
               /\ search_returned' = Err("Failed to spawn command")
               /\ UNCHANGED <<child, next_item, pending>>
    /\ UNCHANGED <<items, select_cmd, installed, call_site, caller, stdin_pipe, stdin_closed,
                   child_input, status, stdout, reaped>>
    /\ UNCHANGED <<stderr_pipe, stderr_pending, drawn>>
    /\ UNCHANGED notFinderVars

\* One write(2) of the loop `for item in items { writeln!(stdin, "{}", item)?; }`:
\* it fails once the child has exited, blocks while the pipe is full, and
\* otherwise moves as many bytes as fit.
WriteStdin ==
    /\ search_pc = "write"
    /\ IF child = "exited"
       THEN /\ search_pc' = "returned" /\ search_returned' = Err("Broken pipe")
            /\ UNCHANGED <<next_item, pending, stdin_pipe>>
       ELSE /\ Len(stdin_pipe) < PipeCapacity
            /\ LET room == PipeCapacity - Len(stdin_pipe)
                   k == IF Len(pending) < room THEN Len(pending) ELSE room
                   rest == SubSeq(pending, k + 1, Len(pending))
               IN /\ stdin_pipe' = stdin_pipe \o SubSeq(pending, 1, k)
                  /\ IF rest # <<>>
                     THEN pending' = rest /\ UNCHANGED <<next_item, search_pc>>
                     ELSE IF next_item < Len(items)
                     THEN /\ next_item' = next_item + 1
                          /\ pending' = ItemRecord(items[next_item + 1])
                          /\ UNCHANGED search_pc
                     ELSE /\ next_item' = next_item + 1 /\ pending' = <<>>
                          /\ search_pc' = "wait"
            /\ UNCHANGED search_returned
    /\ UNCHANGED <<items, select_cmd, installed, call_site, caller, stdin_closed, child,
                   child_input, status, stdout, reaped>>
    /\ UNCHANGED <<stderr_pipe, stderr_pending, drawn>>
    /\ UNCHANGED notFinderVars

\* child.wait_with_output() first drops the parent's end of the child's stdin.
CloseStdin ==
    /\ search_pc = "wait"
    /\ search_pc' = "waiting" /\ stdin_closed' = TRUE
    /\ UNCHANGED <<items, select_cmd, installed, call_site, caller, next_item, pending, stdin_pipe,
                   child, child_input, status, stdout, reaped, search_returned>>
    /\ UNCHANGED <<stderr_pipe, stderr_pending, drawn>>
    /\ UNCHANGED notFinderVars

\* child.wait_with_output() returns when the child has exited; the rest of the
\* function computes the result from the status and the output.
WaitWithOutput ==
    /\ search_pc = "waiting" /\ child = "exited"
    /\ reaped' = TRUE
    /\ search_pc' = "returned" /\ search_returned' = SearchResult(status, stdout)
    /\ UNCHANGED <<items, select_cmd, installed, call_site, caller, next_item, pending, stdin_pipe,
                   stdin_closed, child, child_input, status, stdout>>
    /\ UNCHANGED <<stderr_pipe, stderr_pending, drawn>>
    /\ UNCHANGED notFinderVars

\* The finder reads what is on its stdin.
ChildRead ==
    /\ child = "running" /\ stdin_pipe # <<>>
    /\ stderr_pending = 0
    /\ child_input' = child_input \o stdin_pipe /\ stdin_pipe' = <<>>
    /\ UNCHANGED <<items, select_cmd, installed, call_site, caller, search_pc, next_item, pending,
                   stdin_closed, child, status, stdout, reaped, search_returned>>
    /\ UNCHANGED <<stderr_pipe, stderr_pending, drawn>>
    /\ UNCHANGED notFinderVars

\* The finder exits: the user accepted a candidate or left the finder.
ChildExit ==
    /\ child = "running"
    /\ stderr_pending = 0
    /\ \E st \in ExitStatuses :
         \E out \in IF st = 0 THEN FinderOutputs(FinderRecords(child_input))
                              ELSE {<<>>} :
            /\ child' = "exited" /\ status' = st /\ stdout' = out
    /\ stdin_pipe' = <<>>
    /\ UNCHANGED <<items, select_cmd, installed, call_site, caller, search_pc, next_item, pending,
                   stdin_closed, child_input, reaped, search_returned>>
    /\ UNCHANGED <<stderr_pipe, stderr_pending, drawn>>
    /\ UNCHANGED notFinderVars

\* The finder draws on its stderr, which the bridge has made a pipe
\* (.stderr(Stdio::piped())): it enters a write(2) of one byte.  A process
\* is sequential: until that write has returned it neither reads nor exits.
ChildDraw ==
    /\ child = "running" /\ stderr_pending = 0
    /\ drawn < DrawBudget
    /\ stderr_pending' = 1 /\ drawn' = drawn + 1
    /\ UNCHANGED <<items, select_cmd, installed, call_site, caller, search_pc, next_item,
                   pending, stdin_pipe, stdin_closed, child, child_input, status, stdout,
                   reaped, search_returned, stderr_pipe>>
    /\ UNCHANGED notFinderVars

\* The finder's write(2) on stderr returns once the pipe has room.
ChildWriteStderr ==
    /\ child = "running" /\ stderr_pending > 0
    /\ stderr_pipe < PipeCapacity
    /\ stderr_pipe' = stderr_pipe + stderr_pending /\ stderr_pending' = 0
    /\ UNCHANGED <<items, select_cmd, installed, call_site, caller, search_pc, next_item,
                   pending, stdin_pipe, stdin_closed, child, child_input, status, stdout,
                   reaped, search_returned, drawn>>
    /\ UNCHANGED notFinderVars

\* child.wait_with_output() reads the child's stdout and stderr to their end
\* while it waits; nothing reads them before.
DrainStderr ==
    /\ search_pc = "waiting" /\ stderr_pipe > 0
    /\ stderr_pipe' = 0
    /\ UNCHANGED <<items, select_cmd, installed, call_site, caller, search_pc, next_item,
                   pending, stdin_pipe, stdin_closed, child, child_input, status, stdout,
                   reaped, search_returned, stderr_pending, drawn>>
    /\ UNCHANGED notFinderVars

\* The functions that hand a list to the finder bridge: the search and exec
\* commands, select_interactive_prompts (the edit and delete commands) and
\* select_prompt_file.
CallSites ==
    {"handle_search_command", "handle_exec_command", "select_interactive_prompts",
     "select_prompt_file"}

\* What a call site does when the bridge answers Ok(None): select_prompt_file
\* goes on to the built-in select_from_list, the others end as cancelled.
OnNoResult(site) ==
    IF site = "select_prompt_file" THEN "menu" ELSE "cancelled"

\* The call site's step after the bridge has returned: `?` on an error, the
\* matching of the selected line against the display strings, or OnNoResult.
\* select_prompt_file compares the line with its display strings by equality
\* and goes on to the built-in menu when none is equal.
CallerContinues ==
    /\ search_pc = "returned" /\ caller = "none"
    /\ caller' =
          IF search_returned.tag = "Err" THEN "error"
          ELSE IF search_returned.val = None THEN OnNoResult(call_site)
          ELSE IF call_site = "select_prompt_file"
                  /\ \A i \in 1..Len(items) : items[i] # search_returned.val[1]
               THEN "menu"
          ELSE "match"
    /\ UNCHANGED <<items, select_cmd, installed, search_pc, next_item, pending,
                   stdin_pipe, stdin_closed, child, child_input, status, stdout,
                   reaped, search_returned, call_site>>
    /\ UNCHANGED <<stderr_pipe, stderr_pending, drawn>>
    /\ UNCHANGED notFinderVars

FinderInit ==
    /\ UiInit /\ SearchIdle /\ RecoverIdle /\ FuzzyIdle /\ PageIdle /\ SyncIdle
    /\ items \in CandidateLists
    /\ select_cmd \in SelectCommands
    /\ installed \in SUBSET Executables
    /\ call_site \in CallSites
    /\ call_site = "select_prompt_file" => Len(items) >= 2

FinderNext ==
    \/ CallInteractiveSearch
    \/ SpawnFinder
    \/ WriteStdin
    \/ CloseStdin
    \/ WaitWithOutput
    \/ ChildRead
    \/ ChildExit
    \/ CallerContinues

FinderSpec == FinderInit /\ [][FinderNext]_vars

\* The bridge with a finder that draws on its stderr.  The parent and the
\* child are processes the operating system keeps scheduling, so every step
\* that stays enabled is eventually taken; a child that can read or exit
\* eventually does.
FinderLiveInit ==
    /\ FinderInit
    /\ select_cmd = Fzf /\ installed = Executables
    /\ call_site = "handle_search_command"

FinderLiveNext ==
    \/ FinderNext
    \/ ChildDraw
    \/ ChildWriteStderr
    \/ DrainStderr

FinderLiveSpec ==
    /\ FinderLiveInit /\ [][FinderLiveNext]_vars
    /\ WF_vars(CallInteractiveSearch) /\ WF_vars(SpawnFinder) /\ WF_vars(WriteStdin)
    /\ WF_vars(CloseStdin) /\ WF_vars(DrainStderr) /\ WF_vars(WaitWithOutput)
    /\ WF_vars(CallerContinues)
    /\ WF_vars(ChildRead) /\ WF_vars(ChildWriteStderr) /\ WF_vars(ChildExit)

---------------------------------------------------------------------------
(* Recovering the selected item from the line the bridge returns:          *)
(* find_prompt_by_display_line (src/manager.rs, src/commands/exec.rs) and  *)
(* the position() of Manager::select_interactive.                          *)

\* A prompt as far as its display string goes: the description and the
\* formatted category and tags that follow "]:".
Descriptions == {<<"d">>, <<"d", "]", ":">>}
Suffixes == {<<>>, <<SP, "#", "t">>, <<SP, "#", "t", SP>>}
Prompts == [description : Descriptions, suffix : Suffixes]
PromptLists == UNION {[1..n -> Prompts] : n \in 1..MaxPrompts}
Methods == {"find_prompt_by_display_line", "position"}

\* format!("[{}]:{}{}", description, category_formatted, tags_formatted)
FormatPromptForSelection(prompt) ==
    <<"[">> \o prompt.description \o <<"]", ":">> \o prompt.suffix

\* str::find("]:"): the 0-based offset of the first occurrence, None if absent.
FindBracketColon(s) ==
    LET hits == {k \in 1..(Len(s) - 1) : s[k] = "]" /\ s[k + 1] = ":"}
    IN IF hits = {} THEN None
       ELSE Some((CHOOSE k \in hits : \A m \in hits : k <= m) - 1)

\* The first of a set of 1-based positions as a 0-based Option<usize>.
FirstIndex(hits) ==
    IF hits = {} THEN None
    ELSE Some((CHOOSE i \in hits : \A m \in hits : i <= m) - 1)

\* find_prompt_by_display_line: the text between the first character and the
\* first "]:" is looked up among the descriptions.  (A line that begins
\* with "]:" makes the slice [1..0] panic; no display string begins so.)
FindPromptByDisplayLine(ps, line) ==
    LET desc_end == FindBracketColon(line)
    IN IF desc_end = None \/ desc_end[1] < 1 THEN None
       ELSE LET description == SubSeq(line, 2, desc_end[1])
            IN FirstIndex({i \in 1..Len(ps) : ps[i].description = description})

\* display_strings.iter().position(|d| d == &selected_line)
Position(ps, line) ==
    FirstIndex({i \in 1..Len(ps) : FormatPromptForSelection(ps[i]) = line})

\* The finder prints the display string of the chosen prompt verbatim on a line
\* and exits with status 0; the bridge computes its answer from that output.
BridgeAnswersVerbatim ==
    /\ recover_pc = "start"
    /\ selected_line' =
          SearchResult(0, FormatPromptForSelection(prompts[chosen]) \o <<LF>>)
    /\ recover_pc' = "answered"
    /\ UNCHANGED <<prompts, chosen, method, found>>
    /\ UNCHANGED notRecoverVars

\* The caller maps the line to an item.
RecoverItem ==
    /\ recover_pc = "answered"
    /\ found' =
          IF selected_line.val = None THEN None
          ELSE IF method = "position" THEN Position(prompts, selected_line.val[1])
          ELSE FindPromptByDisplayLine(prompts, selected_line.val[1])
    /\ recover_pc' = "done"
    /\ UNCHANGED <<prompts, chosen, method, selected_line>>
    /\ UNCHANGED notRecoverVars

RecoverInit ==
    /\ UiInit /\ SearchIdle /\ FuzzyIdle /\ PageIdle /\ SyncIdle
    /\ items = <<>> /\ select_cmd = <<>> /\ installed = {}
    /\ call_site = "handle_search_command"
    /\ prompts \in PromptLists
    /\ chosen \in 1..Len(prompts)
    /\ method \in Methods
    /\ selected_line = NoOutcome /\ found = None /\ recover_pc = "start"

RecoverNext ==
    \/ BridgeAnswersVerbatim
    \/ RecoverItem

RecoverSpec == RecoverInit /\ [][RecoverNext]_vars

---------------------------------------------------------------------------
(* fuzzy_search and calculate_fuzzy_score of src/utils/search.rs (the same *)
(* code is in src/utils.rs).  A score is the exact fraction num/den of the *)
(* value the code computes in f64; den is positive.                        *)

ItemChars == {"a", "B"}
QueryChars == {"A", "b"}
StringsOver(chars, n) == UNION {[1..k -> chars] : k \in 0..n}

\* The divisor of the distance penalty: (1.0 - distance_penalty / 10.0)
PenaltyScale == 10

\* Candidates in which a match of two characters is followed, or split, by
\* as many characters as the penalty's divisor.
Filler == [i \in 1..PenaltyScale |-> "a"]
LongItems == {<<"a", "B">> \o Filler, <<"a">> \o Filler \o <<"B">>}

FuzzyItems == StringsOver(ItemChars, MaxFuzzyLen) \cup LongItems
FuzzyItemLists ==
    UNION {[1..n -> FuzzyItems] : n \in 0..MaxFuzzyItems}

\* str::to_lowercase()
LowerChar(c) == IF c = "A" THEN "a" ELSE IF c = "B" THEN "b" ELSE c
ToLowercase(s) == [i \in 1..Len(s) |-> LowerChar(s[i])]

Fraction(n, d) == [num |-> n, den |-> d]
\* a < b on fractions with positive denominators
FractionLess(a, b) == a.num * b.den < b.num * a.den
FractionEqual(a, b) == a.num * b.den = b.num * a.den

\* The for loop of calculate_fuzzy_score from the k-th character of item on.
RECURSIVE ScanItem(_, _, _, _)
ScanItem(item, query, k, st) ==
    IF k > Len(item) THEN st
    ELSE IF st.query_idx < Len(query) /\ item[k] = query[st.query_idx + 1]
    THEN ScanItem(item, query, k + 1,
                  [st EXCEPT !.matches = @ + 1, !.query_idx = @ + 1])
    ELSE IF st.matches > 0
    THEN ScanItem(item, query, k + 1, [st EXCEPT !.total_distance = @ + 1])
    ELSE ScanItem(item, query, k + 1, st)

\* match_ratio * completion_bonus * (1.0 - distance_penalty / 10.0).max(0.0)
CalculateFuzzyScore(item, query) ==
    IF query = <<>> THEN Fraction(1, 1)
    ELSE IF item = <<>> THEN Fraction(0, 1)
    ELSE LET st == ScanItem(item, query, 1,
                            [query_idx |-> 0, matches |-> 0, total_distance |-> 0])
             m == st.matches
             q == Len(query)
             \* 1.0 - distance_penalty / 10.0, clamped at 0, as a fraction
             keep == IF m > 1
                     THEN IF PenaltyScale * (m - 1) > st.total_distance
                          THEN Fraction(PenaltyScale * (m - 1) - st.total_distance,
                                        PenaltyScale * (m - 1))
                          ELSE Fraction(0, 1)
                     ELSE Fraction(1, 1)
         IN IF m = 0 THEN Fraction(0, 1)
            ELSE Fraction(m * st.query_idx * st.query_idx * keep.num,
                          q * q * q * keep.den)

\* results.sort_by(|a, b| b.1.partial_cmp(&a.1)...): a stable sort, so an
\* element is placed behind every element that does not compare after it.
RECURSIVE InsertUnstable(_, _)
InsertUnstable(sorted, r) ==
    IF sorted = <<>> THEN <<r>>
    ELSE IF FractionLess(r.score, sorted[1].score)
    THEN <<sorted[1]>> \o InsertUnstable(Tail(sorted), r)
    ELSE <<r>> \o sorted
RECURSIVE Insert(_, _)
Insert(sorted, r) ==
    IF sorted = <<>> THEN <<r>>
    ELSE IF FractionLess(sorted[1].score, r.score)
    THEN <<r>> \o sorted
    ELSE <<sorted[1]>> \o Insert(Tail(sorted), r)
RECURSIVE SortByScore(_)
SortByScore(rs) ==
    IF rs = <<>> THEN <<>>
    ELSE Insert(SortByScore(SubSeq(rs, 1, Len(rs) - 1)), rs[Len(rs)])

\* The for loop of fuzzy_search: one (idx, score) per item, in input order.
ScoreItems ==
    /\ fuzzy_pc = "start"
    /\ results' =
          [i \in 1..Len(fuzzy_items) |->
              [idx |-> i - 1,
               score |-> CalculateFuzzyScore(ToLowercase(fuzzy_items[i]),
                                             ToLowercase(fuzzy_query))]]
    /\ fuzzy_pc' = "scored"
    /\ UNCHANGED <<fuzzy_items, fuzzy_query>>
    /\ UNCHANGED notFuzzyVars

\* results.sort_by(..); results
SortResults ==
    /\ fuzzy_pc = "scored"
    /\ results' = SortByScore(results)
    /\ fuzzy_pc' = "sorted"
    /\ UNCHANGED <<fuzzy_items, fuzzy_query>>
    /\ UNCHANGED notFuzzyVars

FuzzyInit ==
    /\ UiInit /\ SearchIdle /\ RecoverIdle /\ PageIdle /\ SyncIdle
    /\ items = <<>> /\ select_cmd = <<>> /\ installed = {}
    /\ call_site = "handle_search_command"
    /\ fuzzy_items \in FuzzyItemLists
    /\ fuzzy_query \in StringsOver(QueryChars, MaxFuzzyLen)
    /\ results = <<>> /\ fuzzy_pc = "start"

FuzzyNext ==
    \/ ScoreItems
    \/ SortResults

FuzzySpec == FuzzyInit /\ [][FuzzyNext]_vars

---------------------------------------------------------------------------
(* Pagination: utils/pagination.rs and OutputStyle::ask_and_display_content *)
(* A content is represented by the number of lines content.lines() yields. *)

U16Modulus == 65536
FallbackSize == <<24, 80>>

\* Values of a u16 the model tries: small ones, the fallback values and the
\* ones around the point where doubling leaves the type.
SizeValues ==
    (0..MaxSize) \cup {FallbackSize[1], FallbackSize[2]}
        \cup {U16Modulus \div 2 - 1, U16Modulus \div 2, U16Modulus - 1}

\* What crossterm's size() reports: (columns, rows), or a failure.
SizeProbes ==
    {Ok(<<columns, rows>>) : columns \in SizeValues, rows \in SizeValues}
        \cup {Err("size")}

\* Two thirds of a height over unbounded integers.
TwoThirds(h) == (2 * h) \div 3

\* Line counts the model tries: small ones, the two around two thirds of each
\* height, and the ones that do not fit a u16.
LineCounts ==
    (0..MaxLineCount)
        \cup {TwoThirds(h) : h \in SizeValues}
        \cup {TwoThirds(h) + 1 : h \in SizeValues}
        \cup {U16Modulus, U16Modulus + 1, U16Modulus + MaxLineCount}

Builds == {"debug", "release"}

\* get_terminal_size: (width, height) of the probe becomes (height, width).
GetTerminalSize(probe) ==
    IF probe.tag = "Ok" THEN Ok(<<probe.val[2], probe.val[1]>>)
    ELSE Err("System")

\* Result::unwrap_or
UnwrapOr(outcome, default) ==
    IF outcome.tag = "Ok" THEN outcome.val ELSE default

\* let (_, terminal_height) = get_terminal_size().unwrap_or((24, 80));
DetectedHeight(probe) == UnwrapOr(GetTerminalSize(probe), FallbackSize)[2]

\* should_paginate on a content of n lines.  The count is cast to u16; the
\* doubling is a u16 multiplication, which panics in a build with overflow
\* checks and wraps in one without.
ShouldPaginate(n, h, b) ==
    LET count == n % U16Modulus
        doubled == h * 2
    IN  IF doubled >= U16Modulus /\ b = "debug" THEN "panic"
        ELSE IF count > (doubled % U16Modulus) \div 3 THEN "true"
        ELSE "false"

\* ask_and_display_content, up to the binding of terminal_height.
ProbeTerminalSize ==
    /\ page_pc = "start"
    /\ terminal_height' = DetectedHeight(size_probe)
    /\ page_pc' = "sized"
    /\ UNCHANGED <<size_probe, line_count, build, paginate>>
    /\ UNCHANGED notPageVars

\* ask_and_display_content: the call of should_paginate.
DecidePagination ==
    /\ page_pc = "sized"
    /\ paginate' = ShouldPaginate(line_count, terminal_height, build)
    /\ page_pc' = "decided"
    /\ UNCHANGED <<size_probe, line_count, build, terminal_height>>
    /\ UNCHANGED notPageVars

PageInit ==
    /\ UiInit /\ SearchIdle /\ RecoverIdle /\ FuzzyIdle /\ SyncIdle
    /\ items = <<>> /\ select_cmd = <<>> /\ installed = {}
    /\ call_site = "handle_search_command"
    /\ size_probe \in SizeProbes
    /\ line_count \in LineCounts
    /\ build \in Builds
    /\ terminal_height = 0 /\ paginate = "none" /\ page_pc = "start"

PageNext ==
    \/ ProbeTerminalSize
    \/ DecidePagination

PageSpec == PageInit /\ [][PageNext]_vars

---------------------------------------------------------------------------
(* Sync direction: sync/mod.rs should_sync.  A DateTime<Utc> is a point of *)
(* a total order, represented by a natural number.                         *)

Timestamps == 0..MaxTime

ShouldSyncIgnoresForce(local, remote, forced) ==
    IF local > remote THEN "Upload"
    ELSE IF remote > local THEN "Download"
    ELSE "None"

ShouldSync(local, remote, forced) ==
    IF forced THEN "Upload"
    ELSE IF local > remote THEN "Upload"
    ELSE IF remote > local THEN "Download"
    ELSE "None"

CallShouldSync ==
    /\ sync_pc = "start"
    /\ direction' = ShouldSync(local_updated, remote_updated, force)
    /\ sync_pc' = "done"
    /\ UNCHANGED <<local_updated, remote_updated, force>>
    /\ UNCHANGED notSyncVars

SyncInit ==
    /\ UiInit /\ SearchIdle /\ RecoverIdle /\ FuzzyIdle /\ PageIdle
    /\ items = <<>> /\ select_cmd = <<>> /\ installed = {}
    /\ call_site = "handle_search_command"
    /\ local_updated \in Timestamps
    /\ remote_updated \in Timestamps
    /\ force \in BOOLEAN
    /\ direction = "none" /\ sync_pc = "start"

SyncNext == CallShouldSync

SyncSpec == SyncInit /\ [][SyncNext]_vars

---------------------------------------------------------------------------
(* The specifications.                                                     *)

UiNext ==
    \/ CallPromptMultiline /\ UNCHANGED notUiVars
    \/ PromptMultilineEvent /\ UNCHANGED notUiVars
    \/ PromptMultilineCleanup /\ UNCHANGED notUiVars
    \/ CallUtilsRsPromptMultiline /\ UNCHANGED notUiVars
    \/ UtilsRsPromptMultilineIteration /\ UNCHANGED notUiVars
    \/ CallPromptInputWithAutocomplete /\ UNCHANGED notUiVars
    \/ PromptInputWithAutocompleteEvent /\ UNCHANGED notUiVars
    \/ PromptInputWithAutocompleteCleanup /\ UNCHANGED notUiVars
    \/ CallSelectFromList /\ UNCHANGED notUiVars
    \/ SelectFromListIteration /\ UNCHANGED notUiVars
    \/ CallMultiSelectFromList /\ UNCHANGED notUiVars
    \/ MultiSelectFromListIteration /\ UNCHANGED notUiVars
    \/ CallSelectFromListWithCustom /\ UNCHANGED notUiVars
    \/ SelectFromListWithCustomIteration /\ UNCHANGED notUiVars
    \/ MenuCleanup /\ UNCHANGED notUiVars
    \/ HandleNewCommand /\ UNCHANGED notUiVars
    \/ ResolvePromptContentStep /\ UNCHANGED notUiVars

Init ==
    /\ UiInit /\ SearchIdle /\ RecoverIdle /\ FuzzyIdle /\ PageIdle /\ SyncIdle
    /\ items = <<>> /\ select_cmd = <<>> /\ installed = {}
    /\ call_site = "handle_search_command"
Next == UiNext
Spec == Init /\ [][Next]_vars

---------------------------------------------------------------------------
(* Properties of the interactive operations.                               *)

Returned == pc \in {"returned", "done"}

RawModeOps ==
    {"prompt_multiline", "utils_rs_prompt_multiline", "prompt_input_with_autocomplete",
     "select_from_list", "multi_select_from_list", "select_from_list_with_custom"}

\* The variant of the Result a caller matches on.
OutcomeKind(r) == r.tag

\* C1: once an operation that enters raw mode has returned (by Enter, by Escape or
\* q, or because an event read or a terminal write failed), raw mode and
\* bracketed paste are both off. Restoration calls that themselves fail are left
\* out of the statement.
C1_TerminalRestoredOnReturn ==
    (Returned /\ op \in RawModeOps /\ ~restore_failed)
        => (~raw_mode_active /\ ~bracketed_paste_active)

\* C6 as amended: a paste of the lines l1..ln (n >= 2) onto a current line X
\* commits X \o l1, then l2..l(n-1) as they are, and leaves ln alone as the
\* current line.
C6_PasteCommitsPrefixWithFirstLine ==
    [][ ( /\ op = "prompt_multiline" /\ pc = "loop" /\ pc' = "loop"
          /\ last_event'.kind = "Paste"
          /\ Len(StrLines(last_event'.text)) >= 2 )
        => LET l == StrLines(last_event'.text)
               n == Len(l)
           IN /\ lines' = lines \o <<current_line \o l[1]>> \o SubSeq(l, 2, n - 1)
              /\ current_line' = l[n] ]_vars

\* C6 as claimed: the lines l1..l(n-1) are committed as they are and the current
\* line is X followed by ln.
C6_PasteKeepsPrefixOnCurrentLine ==
    [][ ( /\ op = "prompt_multiline" /\ pc = "loop" /\ pc' = "loop"
          /\ last_event'.kind = "Paste"
          /\ Len(StrLines(last_event'.text)) >= 2 )
        => LET l == StrLines(last_event'.text)
               n == Len(l)
           IN /\ lines' = lines \o SubSeq(l, 1, n - 1)
              /\ current_line' = current_line \o l[n] ]_vars

\* C6, reached: the three lines a, b, a were pasted onto the typed prefix "a".
C6_ThreeLinePasteOnPrefix ==
    /\ op = "prompt_multiline" /\ pc = "loop"
    /\ last_event = PasteEvent(<<"a", LF, "b", LF, "a">>)
    /\ lines = << <<"a", "a">>, <<"b">> >>
    /\ current_line = <<"a">>

\* C7: a session of character keys and line-break keys that ends with a plain
\* Enter returns Ok with the committed lines joined by line feeds, the committed
\* lines being the runs of characters typed between the line-break keys; Enter as
\* the first key returns Ok of the empty text.
C7_EnterReturnsJoinedLines ==
    ( /\ op \in {"prompt_multiline", "utils_rs_prompt_multiline"}
      /\ pure /\ last_event.kind = "Enter" )
    => LET expected == Ok(Join(SplitOn(typed, LF), LF))
       IN /\ pc = "cleanup" => result = expected
          /\ Returned => (returned = expected /\ OutcomeKind(returned) = "Ok")

\* C7, reached: a, line break, b, Enter was typed and "a\nb" came back.
C7_TwoLinesReturned ==
    /\ op = "prompt_multiline" /\ pc = "returned" /\ pure
    /\ last_event.kind = "Enter"
    /\ typed = <<"a", LF, "b">>
    /\ returned = Ok(<<"a", LF, "b">>)

\* C8: Backspace removes the last character of a non-empty current line and leaves
\* the committed lines alone; on an empty current line it pops the last committed
\* line into the current line; with nothing typed it changes nothing. After a,
\* line break, Backspace the committed lines are empty and the current line is "a".
C8_BackspaceEditsBuffer ==
    [][ ( /\ op \in {"prompt_multiline", "utils_rs_prompt_multiline"}
          /\ pc = "loop" /\ pc' = "loop"
          /\ last_event'.kind = "Backspace" )
        => /\ current_line # <<>> =>
                 /\ current_line' = SubSeq(current_line, 1, Len(current_line) - 1)
                 /\ lines' = lines
           /\ (current_line = <<>> /\ lines # <<>>) =>
                 /\ lines' = SubSeq(lines, 1, Len(lines) - 1)
                 /\ current_line' = lines[Len(lines)]
           /\ (current_line = <<>> /\ lines = <<>>) =>
                 /\ lines' = <<>> /\ current_line' = <<>>
           /\ (lines = << <<"a">> >> /\ current_line = <<>>) =>
                 /\ lines' = <<>> /\ current_line' = <<"a">> ]_vars

\* C8, reached: Backspace popped the committed line "a" back into the current line.
C8_BackspacePoppedLine ==
    /\ op = "prompt_multiline" /\ pc = "loop"
    /\ last_event.kind = "Backspace" /\ popped
    /\ lines = <<>> /\ current_line = <<"a">>

\* C9: a cancellation by Escape is not the same kind of result as a system error,
\* and the `new` command does not report a cancellation as an error.
C9_CancelledIsNotAnError ==
    ( /\ op \in {"prompt_multiline", "utils_rs_prompt_multiline",
                 "prompt_input_with_autocomplete"}
      /\ Returned /\ last_event.kind = "Esc" /\ fault = "none" /\ ~restore_failed )
    => /\ OutcomeKind(returned) # OutcomeKind(IoError)
       /\ pc = "done" => OutcomeKind(cmd_outcome) # "Err"

\* C10: a failure of the terminal restoration does not change the outcome: what
\* the operation returns is the result it had computed before its cleanup.
C10_RestorationFailureIgnored ==
    ( /\ op \in {"prompt_multiline", "prompt_input_with_autocomplete", "select_from_list"}
      /\ Returned /\ cleaned )
    => returned = result


---------------------------------------------------------------------------
(* Properties of the finder bridge (specification FinderSpec).             *)

\* The bridge has written every candidate and the finder has read them all.
AllCandidatesRead ==
    /\ search_pc \in {"wait", "waiting"} /\ child = "running"
    /\ stdin_pipe = <<>>

NulRecords(its) == Concat([i \in 1..Len(its) |-> its[i] \o <<NUL>>])

\* C2: the candidates are written to the finder's stdin as NUL-terminated
\* records, so that when one of them contains a line feed the finder is still
\* presented exactly the candidates of the list, none of them split in two.
C2_EmbeddedNewlineCandidateIsOneRecord ==
    ( /\ AllCandidatesRead
      /\ \E i \in 1..Len(items) : \E j \in 1..Len(items[i]) : items[i][j] = LF )
    => /\ child_input = NulRecords(items)
       /\ FinderRecords(child_input) = items

\* The answer the claim C3 describes: line 1 of the output is the key, line 2
\* the selected candidate.
TwoLineAnswer(out) ==
    LET l == StrLines(out)
    IN IF Len(l) < 2 \/ Trim(l[2]) = <<>> THEN Ok(None) ELSE Ok(Some(Trim(l[2])))

\* C3: when the finder has exited with status 0, the bridge returns the
\* trimmed second line of its output, and nothing when the output has fewer
\* than two lines or its second line is empty after trimming.
C3_ReturnsTrimmedSecondLine ==
    (search_pc = "returned" /\ reaped /\ status = 0)
        => search_returned = TwoLineAnswer(stdout)

\* C4: whenever the spawned finder has terminated with a non-zero status,
\* also before the bridge finished writing the candidates, the bridge
\* returns Ok(None) and never an error.
C4_NonZeroExitIsNothingSelected ==
    (search_pc = "returned" /\ child = "exited" /\ status # 0)
        => search_returned = Ok(None)

\* C5: for a non-empty candidate list and a selector command whose executable
\* cannot be invoked, the bridge returns Ok(None) and no finder was spawned.
C5_MissingExecutableIsNoResult ==
    ( /\ search_pc = "returned" /\ items # <<>>
      /\ SplitWhitespace(select_cmd) # <<>>
      /\ SplitWhitespace(select_cmd)[1] \notin installed )
    => (search_returned = Ok(None) /\ child = "none")

C5_FzfWithArgumentsNotInstalled ==
    /\ search_pc = "returned" /\ Len(items) = 2
    /\ select_cmd = <<SP>> \o Fzf \o <<SP, "-", "e">>
    /\ installed = {Peco}
    /\ search_returned = Ok(None) /\ child = "none"

---------------------------------------------------------------------------
(* Properties of the menus.                                                *)

\* C11: in select_from_list over n >= 1 items the highlighted index stays in
\* [0, n): Down adds one except at n-1 where it stays, Up subtracts one except
\* at 0 where it stays, every other key leaves it unchanged, and Enter returns
\* the highlighted index (when the restoration of the terminal succeeds).
C11_HighlightClampedAndReturned ==
    [][ /\ (op = "select_from_list" /\ pc = "loop" /\ last_event'.kind # "None")
           => /\ selected \in 0..(n_items - 1) /\ selected' \in 0..(n_items - 1)
              /\ last_event'.kind = "Down"
                   => selected' = IF selected = n_items - 1 THEN selected
                                  ELSE selected + 1
              /\ last_event'.kind = "Up"
                   => selected' = IF selected = 0 THEN 0 ELSE selected - 1
              /\ last_event'.kind \notin {"Up", "Down"} => selected' = selected
              /\ last_event'.kind = "Enter" => result' = Ok(Some(selected))
        /\ (op = "select_from_list" /\ pc = "cleanup" /\ last_event.kind = "Enter"
              /\ ~restore_failed')
           => returned' = Ok(Some(selected)) ]_vars

C11_DownDownEnterReturnsTwo ==
    /\ op = "select_from_list" /\ pc = "returned" /\ n_items = 3
    /\ last_event.kind = "Enter" /\ returned = Ok(Some(2))

\* C12: a menu called with an empty item list returns nothing selected (the
\* empty set for multi_select_from_list) at once: raw mode is not entered, no
\* input event or input line is read, and no error is returned.
C12_EmptyListReturnsAtOnce ==
    ( /\ op \in {"select_from_list", "multi_select_from_list",
                 "select_from_list_with_custom"}
      /\ n_items = 0 /\ Returned )
    => /\ returned = IF op = "multi_select_from_list" THEN Ok(<<>>) ELSE Ok(None)
       /\ ~raw_mode_active /\ ~cleaned
       /\ last_event = NoEvent

\* C13: in multi_select_from_list Space toggles the membership of the
\* highlighted index in the selected set and changes no other index, no other
\* key changes the set, and Enter returns exactly the selected indices, each
\* once (when the restoration of the terminal succeeds).
C13_SpaceTogglesEnterReturnsSet ==
    [][ /\ (op = "multi_select_from_list" /\ pc = "loop" /\ last_event'.kind # "None")
           => /\ (last_event'.kind = "Char" /\ last_event'.c = SP)
                   => /\ (selected \in selected_items') # (selected \in selected_items)
                      /\ selected_items' \ {selected} = selected_items \ {selected}
              /\ ~(last_event'.kind = "Char" /\ last_event'.c = SP)
                   => selected_items' = selected_items
              /\ last_event'.kind = "Enter"
                   => /\ result'.tag = "Ok"
                      /\ Len(result'.val) = Cardinality(selected_items)
                      /\ {result'.val[i] : i \in 1..Len(result'.val)} = selected_items
        /\ (op = "multi_select_from_list" /\ pc = "cleanup"
              /\ last_event.kind = "Enter" /\ ~restore_failed')
           => /\ returned'.tag = "Ok"
              /\ Len(returned'.val) = Cardinality(selected_items)
              /\ {returned'.val[i] : i \in 1..Len(returned'.val)} = selected_items ]_vars

C13_TwoOfThreeReturned ==
    /\ op = "multi_select_from_list" /\ pc = "returned" /\ n_items = 3
    /\ last_event.kind = "Enter" /\ selected_items = {0, 2}
    /\ returned = Ok(<<0, 2>>)

\* C14: in select_from_list_with_custom, Enter on the virtual trailing row
\* switches to text capture and returns nothing; Enter while capturing returns
\* the typed text to the caller when it is non-empty, and re-shows the list
\* without returning when it is empty.
C14_CustomEntryReturnsTypedText ==
    [][ ( /\ op = "select_from_list_with_custom" /\ pc = "loop"
          /\ last_event'.kind = "Enter" /\ fault' = "none" )
        => /\ (~show_custom_input /\ selected = n_items)
                => (show_custom_input' /\ pc' = "loop")
           /\ (show_custom_input /\ custom_input = <<>>)
                => (~show_custom_input' /\ pc' = "loop")
           /\ (show_custom_input /\ custom_input # <<>>)
                => (pc' = "returned" /\ returned' = Ok(Some(custom_input))) ]_vars

\* C15: a successful empty result differs from a cancellation: what
\* multi_select_from_list returns when Enter confirms an empty selection is not
\* what it returns on q or Escape, and what select_from_list returns for an
\* empty item list is not what it returns on q or Escape.
C15_EmptySuccessIsNotCancelled ==
    /\ ( /\ op = "multi_select_from_list" /\ Returned /\ cleaned /\ ~restore_failed
         /\ last_event.kind = "Enter" /\ selected_items = {} )
       => returned # MultiSelectCancelled
    /\ (op = "select_from_list" /\ Returned /\ n_items = 0)
       => returned # SelectCancelled

---------------------------------------------------------------------------
(* Properties of the callers of the finder bridge (FinderSpec).            *)

\* C16: whenever the configured finder executable is not installed, so that
\* the bridge answers with its no-result signal, every selection path goes on
\* to the built-in select_from_list menu instead of ending as cancelled.
C16_MissingFinderFallsBackToMenu ==
    ( /\ caller # "none" /\ items # <<>>
      /\ SplitWhitespace(select_cmd) # <<>>
      /\ SplitWhitespace(select_cmd)[1] \notin installed )
    => caller = "menu"

\* C17: when the finder returns the display string of the chosen prompt
\* verbatim, the caller obtains an item, and its display string is equal to
\* the chosen one.
C17_ItemRecoveredByDisplayString ==
    recover_pc = "done"
        => /\ found # None
           /\ FormatPromptForSelection(prompts[found[1] + 1])
                = FormatPromptForSelection(prompts[chosen])

\* C18: once the bridge has spawned the finder, the child has been awaited
\* before the call returns, on every outcome.
C18_ChildAwaitedBeforeReturn ==
    (search_pc = "returned" /\ child # "none") => reaped

---------------------------------------------------------------------------
(* Properties of the fuzzy search (FuzzySpec).                             *)

\* q is a subsequence of s.
RECURSIVE IsSubsequence(_, _)
IsSubsequence(q, s) ==
    IF q = <<>> THEN TRUE
    ELSE IF s = <<>> THEN FALSE
    ELSE IF q[1] = s[1] THEN IsSubsequence(Tail(q), Tail(s))
    ELSE IsSubsequence(q, Tail(s))

\* C19: for a non-empty query that is not a case-insensitive subsequence of
\* the candidate, the score is 0.
C19_NonSubsequenceScoresZero ==
    (fuzzy_pc = "scored" /\ fuzzy_query # <<>>)
    => \A i \in 1..Len(fuzzy_items) :
          ~IsSubsequence(ToLowercase(fuzzy_query), ToLowercase(fuzzy_items[i]))
             => results[i].score.num = 0

\* C20: fuzzy_search returns one (index, score) pair per input item, ordered
\* by non-increasing score, and items with equal scores keep their input order.
C20_RankingSortedAndStable ==
    fuzzy_pc = "sorted"
    => /\ Len(results) = Len(fuzzy_items)
       /\ {results[j].idx : j \in 1..Len(results)} = 0..(Len(fuzzy_items) - 1)
       /\ \A j \in 1..Len(results) :
             results[j].score =
                 CalculateFuzzyScore(ToLowercase(fuzzy_items[results[j].idx + 1]),
                                     ToLowercase(fuzzy_query))
       /\ \A j, k \in 1..Len(results) :
             j < k => /\ ~FractionLess(results[j].score, results[k].score)
                      /\ FractionEqual(results[j].score, results[k].score)
                           => results[j].idx < results[k].idx

C20_TiedItemsKeepInputOrder ==
    /\ fuzzy_pc = "sorted"
    /\ fuzzy_items = << <<"a">>, <<"a", "B">> >> /\ fuzzy_query = <<"A">>
    /\ results[1].idx = 0 /\ results[2].idx = 1
    /\ FractionEqual(results[1].score, results[2].score)
    /\ results[1].score.num > 0

---------------------------------------------------------------------------
(* Properties of pagination.                                               *)

\* The decision the rule asks for: more lines than two thirds of the height.
ExceedsTwoThirds(n, h) == IF n > TwoThirds(h) THEN "true" ELSE "false"

\* C21: for every terminal height h, should_paginate is true on a content of
\* floor(h*2/3) + 1 lines and false on a content of exactly floor(h*2/3)
\* lines.
C21_ThresholdIsTwoThirdsOfHeight ==
    page_pc = "decided" =>
        /\ line_count = TwoThirds(terminal_height) + 1 => paginate = "true"
        /\ line_count = TwoThirds(terminal_height) => paginate = "false"

\* C22: ask_and_display_content decides with the row count reported by
\* get_terminal_size, and with 24 rows when the size probe fails; the column
\* count never takes the place of the height.
C22_DecidesWithRowCount ==
    page_pc \in {"sized", "decided"} =>
        terminal_height =
            IF size_probe.tag = "Ok" THEN size_probe.val[2] ELSE FallbackSize[1]

\* C30: the 16-bit arithmetic never changes the decision: for every line
\* count n, 65536 and more included, and every height in 0..65535, those
\* above 32767 included, should_paginate is true exactly when n exceeds
\* floor(2*h/3) computed over unbounded integers.
C30_SixteenBitArithmeticKeepsDecision ==
    page_pc = "decided" =>
        /\ terminal_height \in 0..(U16Modulus - 1)
        /\ paginate = ExceedsTwoThirds(line_count, terminal_height)

---------------------------------------------------------------------------
(* Properties of the sync direction.                                       *)

---------------------------------------------------------------------------
(* Properties of the screen and of the restoration order.                  *)

\* The position of a step in the restoration log, 0 when it is not there.
StepAt(step) ==
    IF \E i \in 1..Len(restore_log) : restore_log[i] = step
    THEN CHOOSE i \in 1..Len(restore_log) : restore_log[i] = step
    ELSE 0

\* C24: on every path out of prompt_multiline the restoration first emits a
\* carriage-return/newline, then disables bracketed paste, and last turns
\* raw mode off.
C24_NewlineThenPasteThenRawMode ==
    (op = "prompt_multiline" /\ Returned /\ cleaned) =>
        /\ StepAt("println") > 0
        /\ StepAt("println") < StepAt("DisableBracketedPaste")
        /\ StepAt("DisableBracketedPaste") < StepAt("disable_raw_mode")

\* C25: after a Backspace that pops a committed line back into the current
\* line, the restored text is drawn from the first column and the cursor is
\* at the end of that text, at column Len(current_line).
C25_CursorAtEndOfRestoredLine ==
    (op \in {"prompt_multiline", "utils_rs_prompt_multiline"} /\ pc = "loop" /\ popped) =>
        /\ drawn_from = 0
        /\ cursor_col = Len(current_line)

---------------------------------------------------------------------------
(* Properties of the bridge with bounded pipes.                            *)

\* C26: the bridge closes the child's stdin after the last candidate and
\* before it blocks waiting for the child's exit, and the parent and the
\* child never deadlock on full pipes: whatever the interleaving of the
\* parent's writes with the child's reads and writes, the call eventually
\* returns.
C26_StdinClosedAndCallReturns ==
    /\ [](search_pc = "waiting" => stdin_closed /\ pending = <<>>)
    /\ <>(search_pc = "returned")

\* C27: select_prompt_file shows the built-in menu only when the finder is
\* unavailable: when the finder ran and the user left it with a non-zero
\* exit, select_prompt_file returns no file and does not go on to the menu.
C27_CancelInFinderIsNotAskedAgain ==
    ( /\ call_site = "select_prompt_file" /\ caller # "none"
      /\ reaped /\ status # 0 ) =>
        caller = "cancelled"

---------------------------------------------------------------------------
(* Properties of the custom entry of select_from_list_with_custom.         *)

\* C28: while select_from_list_with_custom is capturing custom text, every
\* printable ASCII character typed is appended to the captured text, 'c' and
\* 'q' included, and Backspace removes the last one.
C28_CaptureAppendsEveryCharacter ==
    [][ ( /\ op = "select_from_list_with_custom"
          /\ pc = "loop" /\ pc' = "loop"
          /\ show_custom_input ) =>
            /\ last_event'.kind = "Char" =>
                   custom_input' = Append(custom_input, last_event'.c)
            /\ last_event'.kind = "Backspace" /\ custom_input # <<>> =>
                   custom_input' = SubSeq(custom_input, 1, Len(custom_input) - 1)
      ]_vars

\* C29: for a non-empty query that is a case-insensitive subsequence of the
\* candidate, the score is greater than 0 and at most 1, whatever the number
\* of candidate characters that follow or separate the matched ones.
C29_SubsequenceScoresPositive ==
    (fuzzy_pc = "scored" /\ fuzzy_query # <<>>)
    => \A i \in 1..Len(fuzzy_items) :
          IsSubsequence(ToLowercase(fuzzy_query), ToLowercase(fuzzy_items[i]))
             => /\ FractionLess(Fraction(0, 1), results[i].score)
                /\ ~FractionLess(Fraction(1, 1), results[i].score)

===========================================================================
